---- MODULE Spec2Model ----
(***************************************************************************)
(* Model of the pooled RESP store client of kotalco/crossover-cache.       *)
(*                                                                         *)
(*   src/unnamed/part_002   package resp, client.go: Client, its           *)
(*                          connection pool and Do                         *)
(*   src/unnamed/part_003   package resp, connection.go: Connection,       *)
(*                          NewRedisConnection, Send, Receive              *)
(*   src/plugin.go          the HTTP cache handler that owns the Client    *)
(*                                                                         *)
(* A Go goroutine is a process of the model.  Every call of Client.Do is   *)
(* one operation o \in Ops: the calling goroutine (pc[o]) and the I/O      *)
(* goroutine Do spawns (task[o]).  client.pool is a buffered channel,      *)
(* modelled as the sequence of the connections it buffers plus a flag for  *)
(* close(client.pool).                                                     *)
(***************************************************************************)
EXTENDS Integers, Sequences, FiniteSets, TLC

\* ------------------------------------------------------------- bounds
\* The largest pool size a run is configured with.
MaxPoolSize == 2
\* The number of calls of Client.Do in a run.
MaxOps == 2

Ops == 1..MaxOps
\* Every dial yields at most one connection: at most MaxPoolSize dials by
\* the constructor, at most one overflow dial per operation.
Conns == 1..(MaxPoolSize + MaxOps)
\* The nil IConnection.
NilConn == 0
\* mu unlocked.
NoOwner == 0

VARIABLES
    redisPoolSize, \* config.RedisPoolSize, the pool size New passes to NewRedisClient
    ctorPc,        \* NewRedisClient: "loop", "ready" (returned a client), "failed"
    ctorI,         \* NewRedisClient: the loop counter i
    ctorOK,        \* history: number of constructor dials that succeeded
    connState,     \* per connection: "none" (not dialed), "open", "closed"
    pool,          \* client.pool: the buffered connections, oldest first
    poolClosed,    \* close(client.pool) has run
    mu,            \* client.mu: NoOwner or the operation holding it
    closePc,       \* Client.Close: "idle", "draining", "done"
    crashed,       \* an unrecovered panic in a goroutine ended the process
    pc,            \* per operation: position of the goroutine calling Do
    conn,          \* per operation: the conn variable of Do
    ctx,           \* per operation: "live" or "done" (ctx.Err() # nil)
    task,          \* per operation: position of the goroutine spawned by Do
    errChan,       \* per operation: errChan, buffered, capacity 1
    replyChan,     \* per operation: replyChan, buffered, capacity 1
    ret,           \* per operation: what Do returned
    released,      \* history: calls of ReleaseConnection made by the operation
    first,         \* history, while Do is in its select: the signal that
                   \* resolved first, "ctx" or "io"
    \* ---- one Connection and its byte stream (connection.go, client.go)
    auth,          \* NewRedisConnection's auth parameter, a byte string
    connPc,        \* position of the goroutine that uses the Connection
    streamOpen,    \* the net.Conn is dialed and not closed
    cmd,           \* the Client method being executed and its arguments
    opCtx,         \* ctx of that call: "live" or "done"
    written,       \* the bytes the Send of the call in progress wrote
    replies,       \* the raw replies the server wrote, one per command
    buffered,      \* offset: reply bytes rc.rw has read from the socket
    consumed,      \* offset: reply bytes Receive has taken from rc.rw
    line,          \* Receive's local variable line
    result,        \* what the Client methods called so far returned
    \* ---- the HTTP cache handler (plugin.go and its other versions)
    version,       \* the source file of the handler that runs
    hPc,           \* position of the goroutine in New / ServeHTTP
    requests,      \* history: number of calls of ServeHTTP
    store,         \* what the store holds under the request's cache key
    cachedData,    \* ServeHTTP's local variable cachedData
    failed,        \* history: the store steps of this request that failed
    nextCalls,     \* history: calls of c.next.ServeHTTP in this request
    nextStatus,    \* the status code c.next wrote (recorder.status)
    rwStatus,      \* the status code the client's ResponseWriter sent
    rwBody,        \* the body writes the client's ResponseWriter sent
    deletes,       \* history: calls of Delete in this request
    sets           \* history: calls of SetWithTTL in this request

vars == <<redisPoolSize, ctorPc, ctorI, ctorOK, connState, pool, poolClosed, mu, closePc, crashed,
          pc, conn, ctx, task, errChan, replyChan, ret, released, first>>

ctorVars == <<redisPoolSize, ctorPc, ctorI, ctorOK>>
opVars == <<pc, conn, ctx, task, errChan, replyChan, ret, released, first>>
wireVars == <<auth, connPc, streamOpen, cmd, opCtx, written, replies, buffered,
              consumed, line, result>>
\* The variables the actions of the pool leave alone.
httpVars == <<version, hPc, requests, store, cachedData, failed, nextCalls,
              nextStatus, rwStatus, rwBody, deletes, sets>>
nonPoolVars == <<wireVars, httpVars>>
allVars == <<vars, nonPoolVars>>

\* ------------------------------------------------------------ helpers
SeqToSet(s) == {s[i] : i \in 1..Len(s)}

\* The next connection a successful dial creates.
NextConn == 1 + Cardinality({c \in Conns : connState[c] # "none"})

\* The operation is between a successful GetConnection and the end of its
\* deferred ReleaseConnection.
Holding(o) == pc[o] \in {"wait", "release", "relClosing"}
Held(c) == \E o \in Ops : Holding(o) /\ conn[o] = c

\* The spawned goroutine is inside a socket write or read.
InIO(o) == task[o] \in {"sending", "receiving"}

\* client.poolSize, set from the constructor's poolSize parameter, which is
\* also the capacity of client.pool.
poolSize_off == redisPoolSize + 1
poolSize == redisPoolSize

\* ------------------------------------------------- NewRedisConnection
\* Outcomes of NewRedisConnection: a connection, dialed and (with
\* credentials) authenticated, or an error.  On an error no open stream is
\* left: the dial failed, or AUTH failed and the stream was closed.
NewRedisConnection == {"ok", "err"}

\* connState after NewRedisConnection ended with outcome r.
Dialed(r) == IF r = "ok" THEN [connState EXCEPT ![NextConn] = "open"] ELSE connState

\* ----------------------------------------------------- NewRedisClient
\* One iteration of the pre-population loop.
CtorDial ==
    /\ ctorPc = "loop"
    /\ ctorI < poolSize
    /\ NextConn \in Conns
    /\ \E r \in NewRedisConnection :
        /\ connState' = Dialed(r)
        /\ pool' = IF r = "ok" THEN Append(pool, NextConn) ELSE pool
        /\ ctorOK' = IF r = "ok" THEN ctorOK + 1 ELSE ctorOK
    /\ ctorI' = ctorI + 1
    /\ UNCHANGED <<redisPoolSize, ctorPc, poolClosed, mu, closePc, crashed, opVars>>
    /\ UNCHANGED nonPoolVars

\* if len(client.pool) == 0 { return nil, errors.New(...) }
CtorFails_partial == Len(pool) < poolSize
CtorFails == Len(pool) = 0

\* The loop is over: the constructor returns the client or an error
\* (plugin.go New then returns no handler).
CtorFinish ==
    /\ ctorPc = "loop"
    /\ ctorI >= poolSize
    /\ ctorPc' = IF CtorFails THEN "failed" ELSE "ready"
    /\ UNCHANGED <<redisPoolSize, ctorI, ctorOK, connState, pool, poolClosed, mu,
                   closePc, crashed, opVars>>
    /\ UNCHANGED nonPoolVars

Running == ctorPc = "ready" /\ ~crashed

\* ---------------------------------------------------------- Client.Do
\* GetConnection returned (c, nil) to Do: Do defers ReleaseConnection(c),
\* makes the two channels and starts the I/O goroutine.
Acquired(o, c) ==
    /\ conn' = [conn EXCEPT ![o] = c]
    /\ pc' = [pc EXCEPT ![o] = "wait"]
    /\ task' = [task EXCEPT ![o] = "send"]

\* A goroutine calls Do(ctx, command), with a ctx that is live or has
\* expired already, and Do calls GetConnection: client.mu.Lock(), then the
\* select on client.pool.
\*   case conn := <-client.pool   a buffered connection, or the zero value
\*                                (nil) once the channel is closed and empty;
\*                                the deferred Unlock runs in the same step
\*   default                      the dial starts with client.mu held
\* Operations are numbered in the order of their calls.
GetConnection(o) ==
    /\ Running
    /\ pc[o] = "idle"
    /\ \A q \in Ops : q < o => pc[q] # "idle"
    /\ mu = NoOwner
    /\ \E e \in {"live", "done"} :
        /\ ctx' = [ctx EXCEPT ![o] = e]
        /\ first' = [first EXCEPT ![o] = IF e = "done" THEN "ctx" ELSE "none"]
    /\ IF pool # <<>>
       THEN /\ Acquired(o, Head(pool))
            /\ pool' = Tail(pool)
            /\ UNCHANGED mu
       ELSE IF poolClosed
       THEN /\ Acquired(o, NilConn)
            /\ UNCHANGED <<pool, mu>>
       ELSE /\ NextConn \in Conns
            /\ pc' = [pc EXCEPT ![o] = "dialing"]
            /\ mu' = o
            /\ UNCHANGED <<pool, conn, task>>
    /\ UNCHANGED <<ctorVars, connState, poolClosed, closePc, crashed, errChan,
                   replyChan, ret, released>>
    /\ UNCHANGED nonPoolVars

\* GetConnection, default branch: NewRedisConnection returns, then the
\* deferred client.mu.Unlock().  On an error Do returns it at once.
GetConnectionDialed(o) ==
    /\ Running
    /\ pc[o] = "dialing"
    /\ \E r \in NewRedisConnection :
        /\ connState' = Dialed(r)
        /\ IF r = "ok"
           THEN Acquired(o, NextConn) /\ UNCHANGED ret
           ELSE /\ pc' = [pc EXCEPT ![o] = "returned"]
                /\ ret' = [ret EXCEPT ![o] = "dialErr"]
                /\ UNCHANGED <<conn, task>>
    /\ mu' = NoOwner
    /\ UNCHANGED <<ctorVars, pool, poolClosed, closePc, crashed, ctx, errChan,
                   replyChan, released, first>>
    /\ UNCHANGED nonPoolVars

\* The caller's context is cancelled or its deadline passes.  Nothing reads
\* ctx before the spawned goroutine's first check, so a cancellation during
\* GetConnection is the same as one right after it; and one that neither
\* Do's select nor a later check of the goroutine can see is left out.
CancelCtx(o) ==
    /\ Running
    /\ ctx[o] = "live"
    /\ pc[o] = "wait" \/ task[o] \in {"send", "sending"}
    /\ ctx' = [ctx EXCEPT ![o] = "done"]
    /\ first' = [first EXCEPT ![o] = IF pc[o] = "wait" /\ @ = "none" THEN "ctx" ELSE @]
    /\ UNCHANGED <<ctorVars, connState, pool, poolClosed, mu, closePc, crashed, pc,
                   conn, task, errChan, replyChan, ret, released>>
    /\ UNCHANGED nonPoolVars

\* ------------------------------------------- the goroutine Do spawns
\* errChan := make(chan error, 1); replyChan := make(chan string, 1)
ChanCap == 1

\* A send on an unbuffered channel completes only while Do is in its select.
CanSend_unbuffered(o, ch) == pc[o] = "wait" /\ ch = <<>>
\* A send on a buffered channel completes when the buffer has room, and
\* blocks until then.
CanSend(o, ch) == Len(ch) < ChanCap

\* The goroutine puts its one result into errChan or replyChan.
Deliver(o, r) ==
    /\ IF r = "reply"
       THEN /\ CanSend(o, replyChan[o])
            /\ replyChan' = [replyChan EXCEPT ![o] = Append(@, r)]
            /\ UNCHANGED errChan
       ELSE /\ CanSend(o, errChan[o])
            /\ errChan' = [errChan EXCEPT ![o] = Append(@, r)]
            /\ UNCHANGED replyChan
    /\ task' = [task EXCEPT ![o] = "exit"]
    /\ first' = [first EXCEPT ![o] = IF pc[o] = "wait" /\ @ = "none" THEN "io" ELSE @]

\* What a write on connection c can end with: a closed socket only fails.
SendOutcomes(c) == IF connState[c] = "closed" THEN {"ioErr"} ELSE {"ok", "ioErr"}

\* What a read on connection c can end with: a reply, a '-' error reply
\* (returned as an error), or an I/O error.
ReceiveOutcomes(c) ==
    IF connState[c] = "closed" THEN {"ioErr"} ELSE {"reply", "srvErr", "ioErr"}

\* conn.Send(ctx, command), up to the write: a call on the nil interface
\* panics in the goroutine, which ends the process; an expired ctx returns
\* ctx.Err() without touching the socket; otherwise the write starts.
Send(o) ==
    /\ Running
    /\ task[o] = "send"
    /\ IF conn[o] = NilConn
       THEN /\ crashed' = TRUE
            /\ UNCHANGED <<task, errChan, replyChan, first>>
       ELSE IF ctx[o] = "done"
       THEN /\ Deliver(o, "ctxErr")
            /\ UNCHANGED crashed
       ELSE /\ task' = [task EXCEPT ![o] = "sending"]
            /\ UNCHANGED <<crashed, errChan, replyChan, first>>
    /\ UNCHANGED <<ctorVars, connState, pool, poolClosed, mu, closePc, pc, conn,
                   ctx, ret, released>>
    /\ UNCHANGED nonPoolVars

\* The write and flush of Send return; on success the goroutine calls
\* conn.Receive(ctx), which returns ctx.Err() for an expired ctx without
\* touching the socket and otherwise starts the read.
SendDone(o) ==
    /\ Running
    /\ task[o] = "sending"
    /\ \E r \in SendOutcomes(conn[o]) :
        IF r # "ok"
        THEN Deliver(o, r)
        ELSE IF ctx[o] = "done"
        THEN Deliver(o, "ctxErr")
        ELSE /\ task' = [task EXCEPT ![o] = "receiving"]
             /\ UNCHANGED <<errChan, replyChan, first>>
    /\ UNCHANGED <<ctorVars, connState, pool, poolClosed, mu, closePc, crashed, pc,
                   conn, ctx, ret, released>>
    /\ UNCHANGED nonPoolVars

\* The read of Receive returns.
ReceiveDone(o) ==
    /\ Running
    /\ task[o] = "receiving"
    /\ \E r \in ReceiveOutcomes(conn[o]) : Deliver(o, r)
    /\ UNCHANGED <<ctorVars, connState, pool, poolClosed, mu, closePc, crashed, pc,
                   conn, ctx, ret, released>>
    /\ UNCHANGED nonPoolVars

\* ------------------------------------------------------- Do's select
\* case <-ctx.Done():          return "", ctx.Err()
DoCtxDone_nil(o) ==
    /\ ctx[o] = "done"
    /\ ret' = [ret EXCEPT ![o] = "reply"]
    /\ UNCHANGED <<errChan, replyChan>>
DoCtxDone(o) ==
    /\ ctx[o] = "done"
    /\ ret' = [ret EXCEPT ![o] = "ctxErr"]
    /\ UNCHANGED <<errChan, replyChan>>

\* case err := <-errChan:      return "", err
DoErr(o) ==
    /\ errChan[o] # <<>>
    /\ ret' = [ret EXCEPT ![o] = Head(errChan[o])]
    /\ errChan' = [errChan EXCEPT ![o] = Tail(@)]
    /\ UNCHANGED replyChan

\* case reply := <-replyChan:  return reply, nil
DoReply(o) ==
    /\ replyChan[o] # <<>>
    /\ ret' = [ret EXCEPT ![o] = Head(replyChan[o])]
    /\ replyChan' = [replyChan EXCEPT ![o] = Tail(@)]
    /\ UNCHANGED errChan

\* Where Do goes once its select has chosen: the deferred ReleaseConnection.
AfterSelect_noDefer == "returned"
AfterSelect == "release"

\* The select of Do: any ready case may be chosen.
DoSelect(o) ==
    /\ Running
    /\ pc[o] = "wait"
    /\ DoCtxDone(o) \/ DoErr(o) \/ DoReply(o)
    /\ pc' = [pc EXCEPT ![o] = AfterSelect]
    /\ first' = [first EXCEPT ![o] = "none"]
    /\ UNCHANGED <<ctorVars, connState, pool, poolClosed, mu, closePc, crashed,
                   conn, ctx, task, released>>
    /\ UNCHANGED nonPoolVars

\* -------------------------------------------------- ReleaseConnection
\* if len(client.pool) >= client.poolSize
PoolIsFull_early(n) == n >= poolSize - 1
PoolIsFull(n) == n >= poolSize

\* ReleaseConnection(conn), deferred by Do: client.mu.Lock(), then
\*   the pool is full         conn.Close() starts with client.mu held
\*   there is room            client.pool <- conn, which panics on a closed
\*                            channel; the deferred Unlock runs in the same
\*                            step and Do returns (or unwinds with the panic)
ReleaseConnection(o) ==
    /\ Running
    /\ pc[o] = "release"
    /\ mu = NoOwner
    /\ released' = [released EXCEPT ![o] = @ + 1]
    /\ IF PoolIsFull(Len(pool))
       THEN /\ pc' = [pc EXCEPT ![o] = "relClosing"]
            /\ mu' = o
            /\ UNCHANGED pool
       ELSE IF poolClosed
       THEN /\ pc' = [pc EXCEPT ![o] = "panicked"]
            /\ UNCHANGED <<pool, mu>>
       ELSE /\ pool' = Append(pool, conn[o])
            /\ pc' = [pc EXCEPT ![o] = "returned"]
            /\ UNCHANGED mu
    /\ UNCHANGED <<ctorVars, connState, poolClosed, closePc, crashed, conn, ctx,
                   task, errChan, replyChan, ret, first>>
    /\ UNCHANGED nonPoolVars

\* A release on a full pool that drops the connection without closing it.
ReleaseClosed_leak(o) ==
    /\ Running
    /\ pc[o] = "relClosing"
    /\ mu' = NoOwner
    /\ pc' = [pc EXCEPT ![o] = "returned"]
    /\ UNCHANGED <<ctorVars, connState, pool, poolClosed, closePc, crashed, conn,
                   ctx, task, errChan, replyChan, ret, released, first>>
    /\ UNCHANGED nonPoolVars

\* ReleaseConnection, full pool: conn.Close() returns, then the deferred
\* client.mu.Unlock(); Do returns.
ReleaseClosed(o) ==
    /\ Running
    /\ pc[o] = "relClosing"
    /\ connState' = [connState EXCEPT ![conn[o]] = "closed"]
    /\ mu' = NoOwner
    /\ pc' = [pc EXCEPT ![o] = "returned"]
    /\ UNCHANGED <<ctorVars, pool, poolClosed, closePc, crashed, conn, ctx, task,
                   errChan, replyChan, ret, released, first>>
    /\ UNCHANGED nonPoolVars

\* ------------------------------------------------------- Client.Close
\* close(client.pool).  Close does not take client.mu.
CloseBegin ==
    /\ Running
    /\ closePc = "idle"
    /\ poolClosed' = TRUE
    /\ closePc' = "draining"
    /\ UNCHANGED <<ctorVars, connState, pool, mu, crashed, opVars>>
    /\ UNCHANGED nonPoolVars

\* for conn := range client.pool { _ = conn.Close() }: one iteration.
CloseDrain ==
    /\ Running
    /\ closePc = "draining"
    /\ pool # <<>>
    /\ connState' = [connState EXCEPT ![Head(pool)] = "closed"]
    /\ pool' = Tail(pool)
    /\ UNCHANGED <<ctorVars, poolClosed, mu, closePc, crashed, opVars>>
    /\ UNCHANGED nonPoolVars

\* The range loop ends when the closed channel is empty.
CloseEnds_early == TRUE
CloseEnds == pool = <<>>

CloseDone ==
    /\ Running
    /\ closePc = "draining"
    /\ CloseEnds
    /\ closePc' = "done"
    /\ UNCHANGED <<ctorVars, connState, pool, poolClosed, mu, crashed, opVars>>
    /\ UNCHANGED nonPoolVars

\* ============================================================ the wire
\* One Connection, byte by byte: NewRedisConnection with its AUTH, then the
\* Client methods that run on it one after the other (each Do takes it from
\* the pool and releases it).  A byte is a one-character string, or a token
\* for a byte that has no printable character.

\* The number of Client method calls made on the Connection.
MaxCmds == 2

CR == "\r"
LF == "\n"
CRLF == <<CR, LF>>
\* The zero byte make([]byte, n) fills a buffer with.
NUL == "0x00"
\* The two bytes of one two-byte UTF-8 character.
TwoByteChar == <<"0xC3", "0xA9">>

Digit == <<"0", "1", "2", "3", "4", "5", "6", "7", "8", "9">>
IsDigit(b) == \E d \in 1..10 : Digit[d] = b
DigitValue(b) == (CHOOSE d \in 1..10 : Digit[d] = b) - 1

\* fmt's %d and strconv.Itoa: the decimal string form of an int.
RECURSIVE Itoa(_)
Itoa(n) ==
    IF n < 0 THEN <<"-">> \o Itoa(-n)
    ELSE IF n < 10 THEN <<Digit[n + 1]>>
    ELSE Itoa(n \div 10) \o <<Digit[(n % 10) + 1]>>

\* strconv.Atoi: an optional sign and decimal digits, else an error.
RECURSIVE DecimalValue(_)
DecimalValue(s) ==
    IF s = <<>> THEN 0
    ELSE 10 * DecimalValue(SubSeq(s, 1, Len(s) - 1)) + DigitValue(s[Len(s)])

Atoi(s) ==
    LET signed == s # <<>> /\ s[1] \in {"-", "+"}
        digits == IF signed THEN Tail(s) ELSE s
    IN  IF digits = <<>> \/ \E i \in 1..Len(digits) : ~IsDigit(digits[i])
        THEN [err |-> TRUE, n |-> 0]
        ELSE [err |-> FALSE,
              n |-> IF signed /\ s[1] = "-" THEN 0 - DecimalValue(digits)
                    ELSE DecimalValue(digits)]

\* strings.TrimSuffix(s, "\r\n")
TrimSuffix(s) ==
    IF Len(s) >= 2 /\ SubSeq(s, Len(s) - 1, Len(s)) = CRLF
    THEN SubSeq(s, 1, Len(s) - 2) ELSE s

\* A count of characters: the bytes that do not continue a character.
len_chars(s) == Cardinality({i \in 1..Len(s) : s[i] # "0xA9"})
\* Go's len of a string: the number of its bytes.
len(s) == Len(s)

\* ------------------------------------------------ the command formats
\* fmt.Sprintf(format, ...) for each of the format constants: %d takes an
\* int, %s a string.
SendCmd(n1, key, n2, value) ==
    <<"*", "3", CR, LF, "$", "3", CR, LF, "S", "E", "T", CR, LF, "$">>
    \o Itoa(n1) \o CRLF \o key \o CRLF \o <<"$">> \o Itoa(n2) \o CRLF \o value \o CRLF

IncrCmd(n1, key) ==
    <<"*", "2", CR, LF, "$", "4", CR, LF, "I", "N", "C", "R", CR, LF, "$">>
    \o Itoa(n1) \o CRLF \o key \o CRLF

ExpireCmd(n1, key, n2, seconds) ==
    <<"*", "3", CR, LF, "$", "6", CR, LF, "E", "X", "P", "I", "R", "E", CR, LF, "$">>
    \o Itoa(n1) \o CRLF \o key \o CRLF \o <<"$">> \o Itoa(n2) \o CRLF
    \o Itoa(seconds) \o CRLF

SetWithTTLCmd(n1, key, n2, value, n3, ttl) ==
    <<"*", "5", CR, LF, "$", "3", CR, LF, "S", "E", "T", CR, LF, "$">>
    \o Itoa(n1) \o CRLF \o key \o CRLF \o <<"$">> \o Itoa(n2) \o CRLF \o value \o CRLF
    \o <<"$", "2", CR, LF, "E", "X", CR, LF, "$">> \o Itoa(n3) \o CRLF
    \o Itoa(ttl) \o CRLF

GetCmd(n1, key) ==
    <<"*", "2", CR, LF, "$", "3", CR, LF, "G", "E", "T", CR, LF, "$">>
    \o Itoa(n1) \o CRLF \o key \o CRLF

DeleteCmd(n1, key) ==
    <<"*", "2", CR, LF, "$", "3", CR, LF, "D", "E", "L", CR, LF, "$">>
    \o Itoa(n1) \o CRLF \o key \o CRLF

\* "AUTH %s"
AuthCmd(password) == <<"A", "U", "T", "H", " ">> \o password

\* The arguments the Client methods are called with.
Keys == {TwoByteChar}
Values == {<<>>, <<"v">>}
Seconds == {5, 10}
Methods == {"Set", "SetWithTTL", "Get", "Delete", "Incr", "Expire"}
NoCmd == [op |-> "none"]
Calls ==
    [op : {"Set"}, key : Keys, value : Values]
    \cup [op : {"SetWithTTL"}, key : Keys, value : Values, n : Seconds]
    \cup [op : {"Get", "Delete", "Incr"}, key : Keys]
    \cup [op : {"Expire"}, key : Keys, n : Seconds]

\* The command string each Client method passes to Do.
Command(c) ==
    CASE c.op = "Set" -> SendCmd(len(c.key), c.key, len(c.value), c.value)
      [] c.op = "SetWithTTL" ->
            SetWithTTLCmd(len(c.key), c.key, len(c.value), c.value,
                          len(Itoa(c.n)), c.n)
      [] c.op = "Get" -> GetCmd(len(c.key), c.key)
      [] c.op = "Delete" -> DeleteCmd(len(c.key), c.key)
      [] c.op = "Incr" -> IncrCmd(len(c.key), c.key)
      [] c.op = "Expire" -> ExpireCmd(len(c.key), c.key, len(Itoa(c.n)), c.n)
      [] c.op = "Auth" -> AuthCmd(c.key)

\* ------------------------------------------------- Connection.Receive
\* The switch of Receive on line[0], the line ReadString('\n') returned:
\* an error, a reply, or a bulk header whose payload is still to be read.
\* The error of strconv.Atoi is dropped, so length is 0 on a bad header.
Receive(l) ==
    LET length == Atoi(TrimSuffix(Tail(l))).n IN
    CASE l[1] = "-" -> [kind |-> "err", text |-> TrimSuffix(Tail(l)), n |-> 0]
      [] l[1] = "$" /\ length = 0 - 1 -> [kind |-> "reply", text |-> <<>>, n |-> 0]
      [] l[1] = "$" /\ length # 0 - 1 -> [kind |-> "bulk", text |-> <<>>, n |-> length]
      [] l[1] = "+" -> [kind |-> "reply", text |-> TrimSuffix(Tail(l)), n |-> 0]
      [] OTHER -> [kind |-> "reply", text |-> TrimSuffix(l), n |-> 0]

\* An error of Send or Receive that is not a server error reply.
IOError(kind) == [kind |-> "err", text |-> <<kind>>, n |-> 0]

\* fmt.Sscanf(response, ":%d\r\n", &newValue): a colon, a decimal integer
\* and the end of the input (which the format's newline matches).
Sscanf(response) ==
    IF response # <<>> /\ response[1] = ":" THEN Atoi(Tail(response))
    ELSE [err |-> TRUE, n |-> 0]

\* What the Client method c (or Auth) makes of r, the outcome of Do (of
\* Send and Receive): ok, and the returned string, int and bool.
Returns(c, r) ==
    LET fail == [op |-> c.op, ok |-> FALSE, text |-> <<>>, n |-> 0, flag |-> FALSE]
        done == [fail EXCEPT !.ok = TRUE]
    IN  IF r.kind = "err" THEN fail
        ELSE CASE c.op \in {"Set", "SetWithTTL", "Auth"} ->
                    IF r.text # <<"O", "K">> THEN fail ELSE done
               [] c.op = "Incr" ->
                    IF Sscanf(r.text).err THEN fail
                    ELSE [done EXCEPT !.n = Sscanf(r.text).n]
               [] c.op = "Expire" ->
                    IF r.text = <<":", "1">> THEN [done EXCEPT !.flag = TRUE]
                    ELSE IF r.text = <<":", "0">> THEN done
                    ELSE fail
               [] c.op = "Get" -> [done EXCEPT !.text = r.text]
               [] c.op = "Delete" ->
                    IF r.text # <<":", "1">> /\ r.text # <<":", "0">> THEN fail
                    ELSE done

\* --------------------------------------------------------- the server
\* The raw replies a server can write: Status, Error, Integer, Nil, Bulk
\* and Array replies.
StatusOK == <<"+", "O", "K", CR, LF>>
NilReply == <<"$", "-", "1", CR, LF>>
EmptyBulk == <<"$", "0", CR, LF, CR, LF>>
RawReplies ==
    {StatusOK, NilReply, EmptyBulk,
     <<"-", "E", CR, LF>>,
     <<":", "1", CR, LF>>, <<":", "0", CR, LF>>, <<":", "1", "2", CR, LF>>,
     <<"$", "2", CR, LF, "O", "K", CR, LF>>,
     <<"+", ":", "1", CR, LF>>,
     <<"*", "1", CR, LF, ":", "1", CR, LF>>}

\* All the bytes the server wrote so far, and where its j-th reply ends.
RECURSIVE Flatten(_)
Flatten(ss) == IF ss = <<>> THEN <<>> ELSE Head(ss) \o Flatten(Tail(ss))
Stream == Flatten(replies)
Offset(j) == Len(Flatten(SubSeq(replies, 1, j)))

\* The unread bytes in rc.rw's read buffer.
Buf == SubSeq(Stream, consumed + 1, buffered)
HasLine(b) == \E i \in 1..Len(b) : b[i] = LF
FirstLine(b) == SubSeq(b, 1, CHOOSE i \in 1..Len(b) : b[i] = LF /\ \A j \in 1..(i - 1) : b[j] # LF)

\* ------------------------------------------- the Connection at work
\* Send or Receive returned r (an error, or a reply) to the goroutine of
\* Do, and Do to the Client method; or to Auth, called by
\* NewRedisConnection, which closes the stream on an error and returns the
\* Connection otherwise.  The result records the command the call wrote
\* (sent: its number, 0 for none), what Send and Receive returned (got: a
\* reply or an error) and the reply bytes its Receive took (from, to).  Do
\* then releases the Connection to the pool.
Finish(r, sent, from, to) ==
    LET res == Returns(cmd, r) IN
    /\ IF cmd.op = "Auth"
       THEN /\ connPc' = IF res.ok THEN "ready" ELSE "failed"
            /\ streamOpen' = res.ok
            /\ UNCHANGED result
       ELSE /\ connPc' = "ready"
            /\ result' = Append(result, [op |-> res.op, ok |-> res.ok,
                                         text |-> res.text, n |-> res.n,
                                         flag |-> res.flag, sent |-> sent,
                                         got |-> r.kind,
                                         from |-> from, to |-> to])
            /\ UNCHANGED streamOpen
    /\ cmd' = NoCmd
    /\ written' = <<>>
    /\ line' = <<>>

\* NewRedisConnection: dialer.Dial, and with credentials the call of Auth.
Dial ==
    /\ connPc = "new"
    /\ \E r \in NewRedisConnection :
        IF r = "err"
        THEN /\ connPc' = "failed"
             /\ UNCHANGED <<streamOpen, cmd>>
        ELSE /\ streamOpen' = TRUE
             /\ IF auth # <<>>
                THEN /\ cmd' = [op |-> "Auth", key |-> auth]
                     /\ connPc' = "send"
                ELSE /\ connPc' = "ready"
                     /\ UNCHANGED cmd
    /\ UNCHANGED <<vars, httpVars, auth, opCtx, written, replies, buffered,
                   consumed, line, result>>

\* A Client method is called with a live ctx; its Do takes the Connection
\* from the pool and starts the goroutine.
Call ==
    /\ connPc = "ready"
    /\ Len(result) < MaxCmds
    /\ \E c \in Calls : cmd' = c
    /\ opCtx' = "live"
    /\ connPc' = "send"
    /\ UNCHANGED <<vars, httpVars, auth, streamOpen, written, replies, buffered,
                   consumed, line, result>>

\* The ctx of the call is cancelled or expires (for Auth: the 5 s timeout).
CancelOp ==
    /\ connPc \in {"send", "recv"}
    /\ opCtx = "live"
    /\ opCtx' = "done"
    /\ UNCHANGED <<vars, httpVars, auth, connPc, streamOpen, cmd, written, replies,
                   buffered, consumed, line, result>>

\* Connection.Send: the ctx check, then command + "\r\n" is written and
\* flushed, or the write fails.  The server answers a written command with
\* one reply.
ConnSend ==
    /\ connPc = "send"
    /\ IF opCtx = "done"
       THEN /\ Finish(IOError("ctx"), 0, consumed, consumed)
            /\ UNCHANGED replies
       ELSE \E out \in {"ok", "ioErr"} :
            IF out = "ioErr"
            THEN /\ Finish(IOError("io"), 0, consumed, consumed)
                 /\ UNCHANGED replies
            ELSE /\ written' = Command(cmd) \o CRLF
                 /\ \E r \in RawReplies : replies' = Append(replies, r)
                 /\ connPc' = "recv"
                 /\ UNCHANGED <<streamOpen, cmd, line, result>>
    /\ UNCHANGED <<vars, httpVars, auth, opCtx, buffered, consumed>>

\* One Read of the socket returns the next bytes the server wrote that
\* have arrived, in a chunk of any size: the sizes it can return.
Chunks == 1..(Len(Stream) - buffered)

\* Connection.Receive: the ctx check, before the read deadline is set.
ReceiveBegin ==
    /\ connPc = "recv"
    /\ IF opCtx = "done"
       THEN Finish(IOError("ctx"), Len(replies), consumed, consumed)
       ELSE /\ connPc' = "readLine"
            /\ UNCHANGED <<streamOpen, cmd, written, line, result>>
    /\ UNCHANGED <<vars, httpVars, auth, opCtx, replies, buffered, consumed>>

\* rc.rw.ReadString('\n') finds no newline in its buffer and reads the
\* socket once more.
Fill ==
    /\ connPc = "readLine"
    /\ ~HasLine(Buf)
    /\ \E k \in Chunks : buffered' = buffered + k
    /\ UNCHANGED <<vars, httpVars, auth, connPc, streamOpen, cmd, opCtx, written, replies,
                   consumed, line, result>>

\* rc.rw.ReadString('\n') returns the line, and Receive's switch runs; for
\* a bulk header the payload is still to be read.
ReadString ==
    /\ connPc = "readLine"
    /\ HasLine(Buf)
    /\ LET l == FirstLine(Buf) IN
        /\ consumed' = consumed + Len(l)
        /\ IF Receive(l).kind = "bulk"
           THEN /\ line' = l
                /\ connPc' = "readBulk"
                /\ UNCHANGED <<streamOpen, cmd, written, result>>
           ELSE Finish(Receive(l), Len(replies), consumed, consumed + Len(l))
    /\ UNCHANGED <<vars, httpVars, auth, opCtx, replies, buffered>>

\* The n bytes one rc.rw.Read(buf) puts into buf: the bytes its buffer
\* holds, or with an empty buffer the chunk k that one Read of the socket
\* returns; never more than len(buf).
ReadCount(size, k) ==
    LET held == IF buffered > consumed THEN buffered - consumed ELSE k
    IN  IF size < held THEN size ELSE held

\* buf := make([]byte, length+2); rc.rw.Read(buf); string(buf[:length]).
\* The bytes of buf that Read did not fill stay zero.
ReadBulk ==
    /\ connPc = "readBulk"
    /\ \E k \in IF buffered > consumed THEN {0} ELSE Chunks :
        LET length == Receive(line).n
            n == ReadCount(length + 2, k)
            buf == [i \in 1..(length + 2) |->
                       IF i <= n THEN Stream[consumed + i] ELSE NUL]
        IN  /\ consumed' = consumed + n
            /\ buffered' = buffered + k
            /\ Finish([kind |-> "reply", text |-> SubSeq(buf, 1, length), n |-> 0],
                      Len(replies), consumed - Len(line), consumed + n)
    /\ UNCHANGED <<vars, httpVars, auth, opCtx, replies>>

\* The read deadline passes while ReadString or Read waits for the socket:
\* the error is returned, and the bytes ReadString had read are dropped.
ReadTimeout ==
    /\ \/ connPc = "readLine" /\ ~HasLine(Buf)
       \/ connPc = "readBulk" /\ buffered = consumed
    /\ consumed' = buffered
    /\ Finish(IOError("io"), Len(replies), consumed - Len(line), buffered)
    /\ UNCHANGED <<vars, httpVars, auth, opCtx, replies, buffered>>

\* ================================================= the HTTP handler
\* Cache.ServeHTTP, one request at a time, in each version of the handler
\* the repository holds:
\*   plugin.go   New builds one pooled Client; recorder.go writes through
\*   part_000    ServeHTTP builds a Client per request; the recorder of
\*               part_004 only buffers
\*   part_001    as part_000, the blob base64-encoded; the recorder writes
\*               through
\* The store steps are the Client's methods, each of which returns a value
\* or an error (a failed dial, an I/O error, a timeout).

\* The number of requests served.
MaxRequests == 2

Versions == {"plugin.go", "part_000", "part_001"}
\* The status codes c.next answers with.
NextStatuses == {200, 404}
\* The body c.next writes for the request, and the body an earlier request
\* left in the store.
LiveBody == "live"
Bodies == {LiveBody, "cached"}
\* The empty string: what Get returns for a key the store does not hold.
NoData == <<>>
\* The blob ServeHTTP encodes for a CachedResponse (the encoding of its
\* version: gob, in part_001 gob in base64), and the CachedResponse such a
\* blob decodes to.
Encode(code, body) == <<"gob", code, body>>
Decode(blob) == [StatusCode |-> blob[2], Body |-> blob[3]]
ValidBlobs == {Encode(code, body) : code \in NextStatuses, body \in Bodies}
BadBase64 == <<"badBase64">>
BadGob == <<"badGob">>
\* What the store can hold under the cache key apart from nothing: a blob
\* ServeHTTP encoded, a blob that is not base64, a blob that is not a gob
\* encoding of a CachedResponse.
Blobs == ValidBlobs \cup {BadBase64, BadGob}
StoreOutcomes == {"ok", "err"}
PerRequestClient == version \in {"part_000", "part_001"}
WritesThrough == version \in {"plugin.go", "part_001"}

\* rw.WriteHeader(code) on the client's ResponseWriter: the first status
\* code counts.
WriteHeader(code) == rwStatus' = IF rwStatus = 0 THEN code ELSE rwStatus
\* rw.Write(b) on the client's ResponseWriter.  A Write after the body was
\* sent once is sent as well, unless c.next declared a Content-Length,
\* which the body sent has used up: it is then refused
\* (http.ErrContentLength).
WriteOutcomes == IF rwBody = <<>> THEN {"sent"} ELSE {"sent", "refused"}
Write(b) ==
    \E w \in WriteOutcomes :
        rwBody' = IF w = "sent" THEN Append(rwBody, b) ELSE rwBody

\* New: plugin.go builds the Client, and returns no handler when
\* NewRedisClient fails; the other versions build nothing.
HandlerNew ==
    /\ hPc = "new"
    /\ \E r \in StoreOutcomes :
        hPc' = IF version = "plugin.go" /\ r = "err" THEN "noHandler" ELSE "idle"
    /\ UNCHANGED <<vars, wireVars, version, requests, store, cachedData, failed,
                   nextCalls, nextStatus, rwStatus, rwBody, deletes, sets>>

\* A request arrives: ServeHTTP is called with a fresh ResponseWriter.
ServeHTTP ==
    /\ hPc \in {"idle", "done"}
    /\ requests < MaxRequests
    /\ requests' = requests + 1
    /\ hPc' = IF PerRequestClient THEN "dial" ELSE "get"
    /\ cachedData' = NoData
    /\ failed' = {}
    /\ nextCalls' = 0
    /\ nextStatus' = 0
    /\ rwStatus' = 0
    /\ rwBody' = <<>>
    /\ deletes' = 0
    /\ sets' = 0
    /\ UNCHANGED <<vars, wireVars, version, store>>

\* part_000, part_001: resp.NewRedisClient in ServeHTTP; on an error the
\* handler answers 500 and returns.
ServeDial ==
    /\ hPc = "dial"
    /\ \E r \in StoreOutcomes :
        IF r = "err"
        THEN /\ WriteHeader(500)
             /\ Write("something went wrong")
             /\ failed' = failed \cup {"dial"}
             /\ hPc' = "done"
        ELSE /\ hPc' = "get"
             /\ UNCHANGED <<failed, rwStatus, rwBody>>
    /\ UNCHANGED <<vars, wireVars, version, requests, store, cachedData, nextCalls,
                   nextStatus, deletes, sets>>

\* cachedData, err := Get(ctx, cacheKey); if err == nil && cachedData != ""
\* the blob is decoded, else the request is a miss.
ServeGet ==
    /\ hPc = "get"
    /\ \E r \in StoreOutcomes :
        IF r = "err"
        THEN /\ failed' = failed \cup {"get"}
             /\ hPc' = "next"
             /\ UNCHANGED cachedData
        ELSE /\ cachedData' = store
             /\ hPc' = IF store = NoData THEN "next" ELSE "decode"
             /\ UNCHANGED failed
    /\ UNCHANGED <<vars, wireVars, version, requests, store, nextCalls, nextStatus,
                   rwStatus, rwBody, deletes, sets>>

\* The hit: part_001 decodes base64 first and returns when that fails; the
\* gob decoding, then the cached response is written, or the blob is
\* deleted.
ServeDecode ==
    /\ hPc = "decode"
    /\ IF version = "part_001" /\ cachedData = BadBase64
       THEN /\ failed' = failed \cup {"decode"}
            /\ hPc' = "done"
            /\ UNCHANGED <<rwStatus, rwBody>>
       ELSE IF cachedData \in ValidBlobs
       THEN /\ rwStatus' = Decode(cachedData).StatusCode
            /\ Write(Decode(cachedData).Body)
            /\ hPc' = "done"
            /\ UNCHANGED failed
       ELSE /\ failed' = failed \cup {"decode"}
            /\ hPc' = "delete"
            /\ UNCHANGED <<rwStatus, rwBody>>
    /\ UNCHANGED <<vars, wireVars, version, requests, store, cachedData, nextCalls,
                   nextStatus, deletes, sets>>

\* _ = Delete(ctx, cacheKey); the miss path follows.
ServeDelete ==
    /\ hPc = "delete"
    /\ \E r \in StoreOutcomes :
        /\ store' = IF r = "ok" THEN NoData ELSE store
        /\ failed' = IF r = "ok" THEN failed ELSE failed \cup {"delete"}
    /\ deletes' = deletes + 1
    /\ hPc' = "next"
    /\ UNCHANGED <<vars, wireVars, version, requests, cachedData, nextCalls,
                   nextStatus, rwStatus, rwBody, sets>>

\* The miss: c.next.ServeHTTP(recorder, req).  The next handler writes a
\* status code and its body to the recorder, which records them and, in
\* the versions that write through, passes them on to rw.
ServeNext ==
    /\ hPc = "next"
    /\ nextCalls' = nextCalls + 1
    /\ \E code \in NextStatuses :
        /\ nextStatus' = code
        /\ IF WritesThrough
           THEN /\ rwStatus' = code
                /\ Write(LiveBody)
           ELSE UNCHANGED <<rwStatus, rwBody>>
    /\ hPc' = "set"
    /\ UNCHANGED <<vars, wireVars, version, requests, store, cachedData, failed,
                   deletes, sets>>

\* SetWithTTL(ctx, cacheKey, blob, c.cacheExpiry); an error is logged.
ServeSet ==
    /\ hPc = "set"
    /\ \E r \in StoreOutcomes :
        /\ store' = IF r = "ok" THEN Encode(nextStatus, LiveBody) ELSE store
        /\ failed' = IF r = "ok" THEN failed ELSE failed \cup {"set"}
    /\ sets' = sets + 1
    /\ hPc' = "write"
    /\ UNCHANGED <<vars, wireVars, version, requests, cachedData, nextCalls,
                   nextStatus, rwStatus, rwBody, deletes>>

\* The response is written to rw: the recorded status code (not in
\* part_000, where the Write sends 200) and the recorded body.
ServeWrite ==
    /\ hPc = "write"
    /\ rwStatus' = IF rwStatus # 0 THEN rwStatus
                   ELSE IF version = "part_000" THEN 200 ELSE nextStatus
    /\ Write(LiveBody)
    /\ hPc' = "done"
    /\ UNCHANGED <<vars, wireVars, version, requests, store, cachedData, failed,
                   nextCalls, nextStatus, deletes, sets>>

\* ------------------------------------------------------ specification
\* NewRedisClient is about to run, with a pool size of the configuration.
\* (The byte level of a Connection is left out: no Connection is followed.)
Init ==
    /\ redisPoolSize \in 1..MaxPoolSize
    /\ ctorPc = "loop"
    /\ ctorI = 0
    /\ ctorOK = 0
    /\ connState = [c \in Conns |-> "none"]
    /\ pool = <<>>
    /\ poolClosed = FALSE
    /\ mu = NoOwner
    /\ closePc = "idle"
    /\ crashed = FALSE
    /\ pc = [o \in Ops |-> "idle"]
    /\ conn = [o \in Ops |-> NilConn]
    /\ ctx = [o \in Ops |-> "live"]
    /\ task = [o \in Ops |-> "none"]
    /\ errChan = [o \in Ops |-> <<>>]
    /\ replyChan = [o \in Ops |-> <<>>]
    /\ ret = [o \in Ops |-> "none"]
    /\ released = [o \in Ops |-> 0]
    /\ first = [o \in Ops |-> "none"]
    /\ auth = <<>>
    /\ connPc = "new"
    /\ streamOpen = FALSE
    /\ cmd = NoCmd
    /\ opCtx = "live"
    /\ written = <<>>
    /\ replies = <<>>
    /\ buffered = 0
    /\ consumed = 0
    /\ line = <<>>
    /\ result = <<>>
    /\ version = "plugin.go"
    /\ hPc = "new"
    /\ requests = 0
    /\ store = NoData
    /\ cachedData = NoData
    /\ failed = {}
    /\ nextCalls = 0
    /\ nextStatus = 0
    /\ rwStatus = 0
    /\ rwBody = <<>>
    /\ deletes = 0
    /\ sets = 0

\* NewRedisConnection is about to run, with or without credentials.  (The
\* pool is left out.)
WireInit ==
    /\ redisPoolSize = 1
    /\ ctorPc = "loop"
    /\ ctorI = 0
    /\ ctorOK = 0
    /\ connState = [c \in Conns |-> "none"]
    /\ pool = <<>>
    /\ poolClosed = FALSE
    /\ mu = NoOwner
    /\ closePc = "idle"
    /\ crashed = FALSE
    /\ pc = [o \in Ops |-> "idle"]
    /\ conn = [o \in Ops |-> NilConn]
    /\ ctx = [o \in Ops |-> "live"]
    /\ task = [o \in Ops |-> "none"]
    /\ errChan = [o \in Ops |-> <<>>]
    /\ replyChan = [o \in Ops |-> <<>>]
    /\ ret = [o \in Ops |-> "none"]
    /\ released = [o \in Ops |-> 0]
    /\ first = [o \in Ops |-> "none"]
    /\ auth \in {<<>>, <<"p">>}
    /\ connPc = "new"
    /\ streamOpen = FALSE
    /\ cmd = NoCmd
    /\ opCtx = "live"
    /\ written = <<>>
    /\ replies = <<>>
    /\ buffered = 0
    /\ consumed = 0
    /\ line = <<>>
    /\ result = <<>>
    /\ version = "plugin.go"
    /\ hPc = "new"
    /\ requests = 0
    /\ store = NoData
    /\ cachedData = NoData
    /\ failed = {}
    /\ nextCalls = 0
    /\ nextStatus = 0
    /\ rwStatus = 0
    /\ rwBody = <<>>
    /\ deletes = 0
    /\ sets = 0

\* A Client method was called with any of its arguments on a Connection
\* that was dialed without credentials, and Do is about to call Send.
SendInit ==
    /\ redisPoolSize = 1
    /\ ctorPc = "loop"
    /\ ctorI = 0
    /\ ctorOK = 0
    /\ connState = [c \in Conns |-> "none"]
    /\ pool = <<>>
    /\ poolClosed = FALSE
    /\ mu = NoOwner
    /\ closePc = "idle"
    /\ crashed = FALSE
    /\ pc = [o \in Ops |-> "idle"]
    /\ conn = [o \in Ops |-> NilConn]
    /\ ctx = [o \in Ops |-> "live"]
    /\ task = [o \in Ops |-> "none"]
    /\ errChan = [o \in Ops |-> <<>>]
    /\ replyChan = [o \in Ops |-> <<>>]
    /\ ret = [o \in Ops |-> "none"]
    /\ released = [o \in Ops |-> 0]
    /\ first = [o \in Ops |-> "none"]
    /\ auth = <<>>
    /\ connPc = "send"
    /\ streamOpen = TRUE
    /\ cmd \in Calls
    /\ opCtx = "live"
    /\ written = <<>>
    /\ replies = <<>>
    /\ buffered = 0
    /\ consumed = 0
    /\ line = <<>>
    /\ result = <<>>
    /\ version = "plugin.go"
    /\ hPc = "new"
    /\ requests = 0
    /\ store = NoData
    /\ cachedData = NoData
    /\ failed = {}
    /\ nextCalls = 0
    /\ nextStatus = 0
    /\ rwStatus = 0
    /\ rwBody = <<>>
    /\ deletes = 0
    /\ sets = 0

\* New is about to run, in one of the versions of the handler, with the
\* store holding nothing or some blob under the cache key.  (The Client is
\* left out: its methods are the store steps of the handler.)
HandlerInit ==
    /\ redisPoolSize = 1
    /\ ctorPc = "loop"
    /\ ctorI = 0
    /\ ctorOK = 0
    /\ connState = [c \in Conns |-> "none"]
    /\ pool = <<>>
    /\ poolClosed = FALSE
    /\ mu = NoOwner
    /\ closePc = "idle"
    /\ crashed = FALSE
    /\ pc = [o \in Ops |-> "idle"]
    /\ conn = [o \in Ops |-> NilConn]
    /\ ctx = [o \in Ops |-> "live"]
    /\ task = [o \in Ops |-> "none"]
    /\ errChan = [o \in Ops |-> <<>>]
    /\ replyChan = [o \in Ops |-> <<>>]
    /\ ret = [o \in Ops |-> "none"]
    /\ released = [o \in Ops |-> 0]
    /\ first = [o \in Ops |-> "none"]
    /\ auth = <<>>
    /\ connPc = "new"
    /\ streamOpen = FALSE
    /\ cmd = NoCmd
    /\ opCtx = "live"
    /\ written = <<>>
    /\ replies = <<>>
    /\ buffered = 0
    /\ consumed = 0
    /\ line = <<>>
    /\ result = <<>>
    /\ version \in Versions
    /\ hPc = "new"
    /\ requests = 0
    /\ store \in {NoData} \cup Blobs
    /\ cachedData = NoData
    /\ failed = {}
    /\ nextCalls = 0
    /\ nextStatus = 0
    /\ rwStatus = 0
    /\ rwBody = <<>>
    /\ deletes = 0
    /\ sets = 0

Next ==
    \/ CtorDial
    \/ CtorFinish
    \/ CloseBegin
    \/ CloseDrain
    \/ CloseDone
    \/ \E o \in Ops : GetConnection(o)
    \/ \E o \in Ops : GetConnectionDialed(o)
    \/ \E o \in Ops : CancelCtx(o)
    \/ \E o \in Ops : Send(o)
    \/ \E o \in Ops : SendDone(o)
    \/ \E o \in Ops : ReceiveDone(o)
    \/ \E o \in Ops : DoSelect(o)
    \/ \E o \in Ops : ReleaseConnection(o)
    \/ \E o \in Ops : ReleaseClosed(o)

Spec == Init /\ [][Next]_allVars

\* New is about to run with a pool of one connection.
LiveInit ==
    /\ redisPoolSize = 1
    /\ ctorPc = "loop"
    /\ ctorI = 0
    /\ ctorOK = 0
    /\ connState = [c \in Conns |-> "none"]
    /\ pool = <<>>
    /\ poolClosed = FALSE
    /\ mu = NoOwner
    /\ closePc = "idle"
    /\ crashed = FALSE
    /\ pc = [o \in Ops |-> "idle"]
    /\ conn = [o \in Ops |-> NilConn]
    /\ ctx = [o \in Ops |-> "live"]
    /\ task = [o \in Ops |-> "none"]
    /\ errChan = [o \in Ops |-> <<>>]
    /\ replyChan = [o \in Ops |-> <<>>]
    /\ ret = [o \in Ops |-> "none"]
    /\ released = [o \in Ops |-> 0]
    /\ first = [o \in Ops |-> "none"]
    /\ auth = <<>>
    /\ connPc = "new"
    /\ streamOpen = FALSE
    /\ cmd = NoCmd
    /\ opCtx = "live"
    /\ written = <<>>
    /\ replies = <<>>
    /\ buffered = 0
    /\ consumed = 0
    /\ line = <<>>
    /\ result = <<>>
    /\ version = "plugin.go"
    /\ hPc = "new"
    /\ requests = 0
    /\ store = NoData
    /\ cachedData = NoData
    /\ failed = {}
    /\ nextCalls = 0
    /\ nextStatus = 0
    /\ rwStatus = 0
    /\ rwBody = <<>>
    /\ deletes = 0
    /\ sets = 0

\* The Go scheduler runs a goroutine that can run, and a socket write or
\* read returns by the deadline Send and Receive set (the deadline of ctx,
\* or 5 s from the call): while some I/O goroutine can take a step, one of
\* them does.
TaskFairness ==
    WF_allVars(\E o \in Ops : Send(o) \/ SendDone(o) \/ ReceiveDone(o))

LiveSpec == LiveInit /\ [][Next]_allVars /\ TaskFairness

\* One Connection at the byte level, from NewRedisConnection on; the pool
\* is left out.
WireNext ==
    \/ Dial
    \/ Call
    \/ CancelOp
    \/ ConnSend
    \/ ReceiveBegin
    \/ Fill
    \/ ReadString
    \/ ReadBulk
    \/ ReadTimeout

WireSpec == WireInit /\ [][WireNext]_allVars

\* Connection.Send for every call of a Client method, and the server's
\* answer.
SendSpec == SendInit /\ [][ConnSend]_allVars

\* The HTTP handler, request by request.
HandlerNext ==
    \/ HandlerNew
    \/ ServeHTTP
    \/ ServeDial
    \/ ServeGet
    \/ ServeDecode
    \/ ServeDelete
    \/ ServeNext
    \/ ServeSet
    \/ ServeWrite

HandlerSpec == HandlerInit /\ [][HandlerNext]_allVars


\* ------------------------------------------------------------- claims

\* C1: under any interleaving of Do calls, cancelled ones included, no
\* connection is inside a send or receive of two I/O goroutines at once.
\* The code releases the connection of a cancelled Do while its goroutine
\* still uses it, and hands it to the next Do.
C1_ExclusiveUse ==
    \A o1, o2 \in Ops :
        (o1 # o2 /\ InIO(o1) /\ InIO(o2)) => conn[o1] # conn[o2]

\* C2: in every reachable state the pool buffers at most the configured
\* pool size of idle connections.
C2_IdleBound == Len(pool) <= redisPoolSize

\* C2 witness: a release finds the pool at capacity and discards.
C2_Witness == \E o \in Ops : pc[o] = "relClosing" /\ Len(pool) = redisPoolSize

\* C3 (state part): an acquire on an empty, open pool is never made to
\* wait for a release: with client.mu free it can run at once.
C3_NoWait ==
    \A o \in Ops :
        (/\ Running
         /\ pc[o] = "idle"
         /\ \A q \in Ops : q < o => pc[q] # "idle"
         /\ pool = <<>>
         /\ ~poolClosed
         /\ mu = NoOwner) => ENABLED GetConnection(o)

\* C3 (state part): after a full pre-population and without Close, once
\* every acquired connection has been released the pool holds exactly
\* the configured number of connections.
C3_AllReleased ==
    (/\ ctorPc = "ready"
     /\ ctorOK = redisPoolSize
     /\ closePc = "idle"
     /\ \A o \in Ops : ~Holding(o)) => Len(pool) = redisPoolSize

\* C3 (step part): an acquire on an empty pool dials, and the connection it
\* obtains is a new one.
C3_Fresh ==
    \A o \in Ops :
        /\ (pc[o] = "idle" /\ pc'[o] # "idle" /\ pool = <<>> /\ ~poolClosed)
              => pc'[o] = "dialing"
        /\ (pc[o] = "dialing" /\ pc'[o] = "wait")
              => connState[conn'[o]] = "none" /\ connState'[conn'[o]] = "open"

\* C3: for a pool pre-populated to capacity N, an acquire issued while N
\* operations hold all N connections does not wait for a release but dials
\* an overflow connection, and once all N+1 connections are released the
\* pool holds exactly N.
C3_PoolBound == [](C3_NoWait /\ C3_AllReleased) /\ [][C3_Fresh]_vars

\* C3 witness: the pool was pre-populated to its capacity N, N + 1
\* operations held N + 1 different connections, one of them dialed on the
\* empty pool, and all have released them.
C3_Witness ==
    /\ ctorOK = redisPoolSize
    /\ closePc = "idle"
    /\ \A o \in Ops : pc[o] = "returned" /\ released[o] = 1
    /\ Cardinality({conn[o] : o \in Ops}) = redisPoolSize + 1
    /\ Len(pool) = redisPoolSize

\* C4: a Do that acquired a connection has called ReleaseConnection exactly
\* once when it returns, whatever it returns; a Do whose acquire failed
\* has released nothing.
C4_ReleaseOnce ==
    \A o \in Ops :
        /\ released[o] <= 1
        /\ pc[o] = "returned" =>
              released[o] = (IF ret[o] = "dialErr" THEN 0 ELSE 1)

\* C4 witness: one operation has returned a cancellation after its one
\* release, another a failed acquire without any.
C4_Witness ==
    \E a, b \in Ops :
        /\ pc[a] = "returned" /\ ret[a] = "ctxErr" /\ released[a] = 1
        /\ pc[b] = "returned" /\ ret[b] = "dialErr" /\ released[b] = 0

\* C5: a Do called with an expired ctx does no network I/O and returns the
\* cancellation error, whatever the pool holds.  ctx is only cancelled
\* after the acquire here, so a ctx that is done during the dial, or at the
\* return of the dial's error, had expired when Do was called.
C5_ExpiredNoIO ==
    \A o \in Ops :
        ctx[o] = "done" => (pc[o] # "dialing" /\ ret[o] # "dialErr")


\* What the I/O goroutine has put into Do's channels and Do has not read.
Delivered(o) == SeqToSet(errChan[o]) \cup SeqToSet(replyChan[o])

\* The step in which Do's select chooses a case.
Selects(o) == pc[o] = "wait" /\ pc'[o] # "wait"

\* C6 as stated: Do returns the signal that resolved first: the ctx error
\* when ctx was done before the goroutine had a result, and the goroutine's
\* reply or error when it was put into the channel while ctx was live.
\* Go's select chooses among the cases ready when it runs, so the signal
\* that came second can be returned.
C6_FirstWins ==
    [][\A o \in Ops :
          Selects(o) =>
              /\ first[o] = "ctx" => ret'[o] = "ctxErr"
              /\ first[o] = "io" => ret'[o] \in Delivered(o)]_vars

\* C6 amended: Do returns a signal that is ready when its select runs.
\* With only ctx done it returns the ctx error and the goroutine, which has
\* no result yet, runs on untouched; with only a result in the channels it
\* returns exactly that reply or error; with both, either.
C6_ReadyWins ==
    [][\A o \in Ops :
          Selects(o) =>
              /\ ret'[o] \in Delivered(o) \cup (IF ctx[o] = "done" THEN {"ctxErr"} ELSE {})
              /\ Delivered(o) = {} =>
                    (ret'[o] = "ctxErr" /\ task[o] # "exit" /\ task'[o] = task[o])
              /\ ctx[o] = "live" => ret'[o] \in Delivered(o)]_vars

\* C6 witness: Do has returned the ctx error while its goroutine is still
\* inside the socket I/O.
C6_Witness ==
    \E o \in Ops : pc[o] = "returned" /\ ret[o] = "ctxErr" /\ InIO(o)

\* C7: client.mu is never held across network I/O: no operation is inside
\* a dial or a socket close while it holds the lock.  GetConnection dials
\* and ReleaseConnection closes with the lock held until the deferred
\* Unlock.
C7_NoIOUnderLock ==
    \A o \in Ops : pc[o] \in {"dialing", "relClosing"} => mu # o

\* C8: the constructor makes as many dials as the configured pool size N;
\* it fails exactly when none succeeded; the client it returns holds
\* exactly the connections dialed with success, between 1 and N of them.
C8_Construction ==
    /\ ctorPc # "loop" => ctorI = redisPoolSize
    /\ ctorPc = "failed" <=> (ctorPc # "loop" /\ ctorOK = 0)
    /\ (ctorPc = "ready" /\ closePc = "idle" /\ \A o \in Ops : pc[o] = "idle") =>
          /\ SeqToSet(pool) = {c \in Conns : connState[c] = "open"}
          /\ Len(pool) = ctorOK
          /\ 1 <= ctorOK /\ ctorOK <= redisPoolSize

\* C8 witness: a pool smaller than requested is accepted.
C8_Witness ==
    /\ ctorPc = "ready"
    /\ Len(pool) < redisPoolSize
    /\ \A o \in Ops : pc[o] = "idle"

\* C9: when Close is over, the pool is empty and every connection still
\* open is one an operation had checked out (it holds it, or its release
\* panicked on the closed channel); and no connection is closed while an
\* operation holds it.
C9_Close ==
    /\ closePc = "done" =>
          /\ pool = <<>>
          /\ \A c \in Conns :
                connState[c] = "open" =>
                    \E o \in Ops :
                        conn[o] = c /\ (Holding(o) \/ pc[o] = "panicked")
    /\ \A c \in Conns : Held(c) => connState[c] = "open"

\* C9 witness: Close is over, it closed an idle connection (one no
\* operation ever held), and a checked-out connection is still open.
C9_Witness ==
    /\ closePc = "done"
    /\ \E c \in Conns : connState[c] = "closed" /\ \A o \in Ops : conn[o] # c
    /\ \E o \in Ops : Holding(o) /\ conn[o] # NilConn /\ connState[conn[o]] = "open"

\* C10: a connection on which a send or receive failed with an I/O error
\* is discarded on release and never idle in the pool again.  The deferred
\* ReleaseConnection puts it back like any other.
C10_FaultedDiscarded ==
    \A o \in Ops : ret[o] = "ioErr" => conn[o] \notin SeqToSet(pool)

\* ---------------------------------------------------------------- C11
\* An operation is in flight from its call of Do to Do's return.
InFlight(o) == pc[o] \in {"dialing", "wait", "release", "relClosing"}

\* The ways a dialed connection can be accounted for.
Accounts(c) ==
    {k \in {"idle", "held", "closed"} :
        \/ k = "idle" /\ c \in SeqToSet(pool)
        \/ k = "held" /\ Held(c)
        \/ k = "closed" /\ connState[c] = "closed"}

\* The step that ends a release begun on a full idle set leaves the
\* connection closed and outside the pool.
C11_OverflowClosed ==
    \A o \in Ops : (pc[o] = "relClosing" /\ pc'[o] # "relClosing") =>
        /\ connState'[conn[o]] = "closed"
        /\ conn[o] \notin SeqToSet(pool')

\* A closed connection is neither idle (no later acquire returns it) nor
\* held.  While Close has not been called, every dialed connection is
\* exactly one of idle in the pool (once), held by exactly one in-flight
\* operation, or closed, and when no operation is in flight the open
\* connections are exactly the idle ones.
C11_Partition ==
    /\ \A c \in Conns : connState[c] = "closed" =>
            c \notin SeqToSet(pool) /\ ~Held(c)
    /\ closePc = "idle" =>
        /\ \A c \in Conns : connState[c] # "none" =>
              /\ Cardinality(Accounts(c)) = 1
              /\ Cardinality({i \in 1..Len(pool) : pool[i] = c}) <= 1
              /\ Cardinality({o \in Ops : Holding(o) /\ conn[o] = c}) <= 1
        /\ (\A o \in Ops : ~InFlight(o)) =>
              {c \in Conns : connState[c] = "open"} = SeqToSet(pool)

\* C11: a connection released while the idle set already holds
\* capacity-many connections is closed and never returned by a later
\* acquire; while Close has not been called every dialed connection is
\* exactly one of idle, held by one in-flight operation, or closed, and
\* with no operation in flight the open connections are exactly the idle
\* ones.
C11_Accounted == []C11_Partition /\ [][C11_OverflowClosed]_vars

\* An overflow connection was released on a full idle set and closed, all
\* operations are over and the pool is full again.
C11_Witness ==
    /\ closePc = "idle"
    /\ \A o \in Ops : pc[o] = "returned"
    /\ \E o \in Ops : conn[o] # NilConn /\ connState[conn[o]] = "closed"
    /\ Len(pool) = redisPoolSize

\* ---------------------------------------------------------------- C21
\* The I/O goroutine of the operation has not ended.
TaskAlive(o) == task[o] \in {"send", "sending", "receiving"}

\* The goroutine's one channel send finds room, read or not.
C21_NeverBlocks ==
    \A o \in Ops :
        TaskAlive(o) => CanSend(o, errChan[o]) /\ CanSend(o, replyChan[o])

\* Do returned ctx.Err(); the goroutine it spawned is over (it returned, or
\* a panic ended the process).
ReturnedOnCtx(o) == pc[o] = "returned" /\ ret[o] = "ctxErr"
TaskOver(o) == task[o] = "exit" \/ crashed

\* Neither is ever undone.
C21_Stable ==
    \A o \in Ops :
        /\ ReturnedOnCtx(o) => ReturnedOnCtx(o)'
        /\ TaskOver(o) => TaskOver(o)'

\* C21: after Do returned the ctx error, its I/O goroutine ends: the socket
\* call returns by its deadline, and the send of the result into errChan or
\* replyChan never blocks although Do no longer reads them, so no goroutine
\* stays blocked forever.  As a return and the end of a goroutine are never
\* undone, "every return on ctx is followed by the end of the goroutine"
\* is: again and again, every Do that returned on ctx has its goroutine
\* over.
C21_TaskEnds ==
    /\ []C21_NeverBlocks
    /\ [][C21_Stable]_vars
    /\ []<>(\A o \in Ops : ReturnedOnCtx(o) => TaskOver(o))

\* C21 witness: Do returned the ctx error, and its goroutine has ended with
\* its result left unread in a channel.
C21_Witness ==
    \E o \in Ops :
        /\ pc[o] = "returned" /\ ret[o] = "ctxErr" /\ task[o] = "exit"
        /\ Delivered(o) # {}

\* ---------------------------------------------------------------- C22
\* C22: in every reachable state, also after Close, a GetConnection that
\* returned no error returned a non-nil, open connection.  Once Close has
\* closed client.pool and drained it, the receive in GetConnection's
\* select yields the zero value: a nil connection with a nil error.
C22_AcquireUsable ==
    \A o \in Ops :
        pc[o] = "wait" => (conn[o] # NilConn /\ connState[conn[o]] = "open")

\* ---------------------------------------------------------------- C23
\* C23: an operation that holds a connection while Close has not begun
\* either releases it before Close or has it checked out when Close
\* begins; its ReleaseConnection never panics, whenever it runs.  A
\* release that finds room in the pool sends on client.pool, which Close
\* has closed: the send panics and the connection is neither closed nor
\* kept.
C23_ReleaseCompletes ==
    \A o \in Ops :
        []((Holding(o) /\ ~poolClosed) => [](pc[o] # "panicked"))

\* ---------------------------------------------------------------- C12
\* The call wrote a command, and its Receive began at the first byte of the
\* server's reply to that command.
Aligned(r) == r.sent > 0 /\ r.from = Offset(r.sent - 1)

\* C12: each successful Receive that starts at the first byte of a reply
\* (Status, Error, Integer, Nil or Bulk) consumes exactly the bytes of that
\* reply, for a bulk reply the header line, the declared payload bytes and
\* the trailing CRLF, however the bytes arrive in chunks, so that the next
\* Receive starts at the first byte of the next reply.
C12_ExactFraming ==
    \A i \in 1..Len(result) : \A j \in 1..Len(replies) :
        (/\ result[i].got = "reply"
         /\ result[i].from = Offset(j - 1)
         /\ replies[j][1] # "*")
            => result[i].to = Offset(j)

\* ---------------------------------------------------------------- C13
\* C13: what Get returns for a key that was never set (a Nil reply) differs
\* from what it returns for a key that holds the empty string (a
\* zero-length Bulk reply).
C13_NilDistinct ==
    \A i, j \in 1..Len(result) :
        (/\ result[i].op = "Get" /\ Aligned(result[i])
         /\ result[j].op = "Get" /\ Aligned(result[j])
         /\ replies[result[i].sent] = NilReply
         /\ result[i].to = Offset(result[i].sent)
         /\ replies[result[j].sent] = EmptyBulk
         /\ result[j].to = Offset(result[j].sent))
            => <<result[i].ok, result[i].text>> # <<result[j].ok, result[j].text>>

\* ---------------------------------------------------------------- C14
\* C14: a Receive that reads a reply whose first byte is '*' returns an
\* error; the reply is never returned as a successful value.
C14_ArrayIsError ==
    \A i \in 1..Len(result) :
        (result[i].to > result[i].from /\ Stream[result[i].from + 1] = "*")
            => result[i].got = "err"

\* ---------------------------------------------------------------- C15
IsInteger(raw) ==
    /\ raw[1] = ":"
    /\ Len(raw) > 3
    /\ ~Atoi(SubSeq(raw, 2, Len(raw) - 2)).err

\* The reply shape each method expects.
Expected(op, raw) ==
    CASE op \in {"Set", "SetWithTTL"} -> raw = StatusOK
      [] op \in {"Delete", "Expire"} ->
            raw \in {<<":", "1", CR, LF>>, <<":", "0", CR, LF>>}
      [] op = "Incr" -> IsInteger(raw)
      [] OTHER -> TRUE

\* C15: a method whose Receive read the server's reply to its command
\* succeeds only if that reply has the expected shape (Status "OK" for Set
\* and SetWithTTL, Integer 1 or 0 for Delete and Expire, an Integer for
\* Incr), and with that reply read in full it succeeds, Expire returning
\* true for 1 and false for 0 and Incr the Integer's value; every other
\* reply yields an error.
C15_ExpectedShape ==
    \A i \in 1..Len(result) :
        LET r == result[i]
            raw == replies[r.sent]
        IN  Aligned(r) =>
            /\ r.ok => Expected(r.op, raw)
            /\ (r.got = "reply" /\ r.to = Offset(r.sent) /\ Expected(r.op, raw)) =>
                /\ r.ok
                /\ r.op = "Expire" => (r.flag <=> raw[2] = "1")
                /\ r.op = "Incr" => r.n = Atoi(SubSeq(raw, 2, Len(raw) - 2)).n

\* ---------------------------------------------------------------- C18
\* A reader of the array form: the header "*<count>\r\n", then count
\* elements "$<length>\r\n<length bytes>\r\n".
LineEnd(s, i) ==
    IF \E e \in i..Len(s) : s[e] = LF
    THEN CHOOSE e \in i..Len(s) : s[e] = LF /\ \A d \in i..(e - 1) : s[d] # LF
    ELSE 0

\* The header line at position i: its tag, its number, where it ends.
HeaderAt(s, i, tag) ==
    LET e == LineEnd(s, i)
        number == Atoi(SubSeq(s, i + 1, e - 2))
    IN  IF i <= Len(s) /\ s[i] = tag /\ e > i + 1 /\ s[e - 1] = CR /\ ~number.err
        THEN [ok |-> TRUE, n |-> number.n, next |-> e + 1]
        ELSE [ok |-> FALSE, n |-> 0, next |-> i]

RECURSIVE ElementsAt(_, _, _)
ElementsAt(s, i, count) ==
    IF count = 0 THEN [ok |-> TRUE, elems |-> <<>>, next |-> i]
    ELSE LET h == HeaderAt(s, i, "$")
             end == h.next + h.n
         IN  IF h.ok /\ h.n >= 0 /\ end + 1 <= Len(s) /\ SubSeq(s, end, end + 1) = CRLF
             THEN LET rest == ElementsAt(s, end + 2, count - 1)
                  IN  [ok |-> rest.ok,
                       elems |-> <<SubSeq(s, h.next, end - 1)>> \o rest.elems,
                       next |-> rest.next]
             ELSE [ok |-> FALSE, elems |-> <<>>, next |-> i]

ArrayAt(s) ==
    LET h == HeaderAt(s, 1, "*")
    IN  IF h.ok /\ h.n >= 0
        THEN [count |-> h.n] @@ ElementsAt(s, h.next, h.n)
        ELSE [count |-> 0, ok |-> FALSE, elems |-> <<>>, next |-> 1]

\* The elements of each command shape: the command name, then the
\* arguments, integers in their decimal string form.
Shape(c) ==
    CASE c.op = "Set" -> <<<<"S", "E", "T">>, c.key, c.value>>
      [] c.op = "SetWithTTL" ->
            <<<<"S", "E", "T">>, c.key, c.value, <<"E", "X">>, Itoa(c.n)>>
      [] c.op = "Get" -> <<<<"G", "E", "T">>, c.key>>
      [] c.op = "Delete" -> <<<<"D", "E", "L">>, c.key>>
      [] c.op = "Incr" -> <<<<"I", "N", "C", "R">>, c.key>>
      [] c.op = "Expire" -> <<<<"E", "X", "P", "I", "R", "E">>, c.key, Itoa(c.n)>>

\* C18: the bytes Send writes for a Client method are an array header with
\* the element count of the command's shape (SET 3, SET..EX 5, GET, DEL
\* and INCR 2, EXPIRE 3), then one length-prefixed element per argument
\* whose declared length is the byte length of the argument (for an
\* integer, of its decimal string form); Send's own CRLF follows.
C18_Encoding ==
    (cmd.op \in Methods /\ written # <<>>) =>
        LET a == ArrayAt(written) IN
        /\ a.ok
        /\ a.count = Len(Shape(cmd))
        /\ a.count = (CASE cmd.op = "SetWithTTL" -> 5
                        [] cmd.op \in {"Set", "Expire"} -> 3
                        [] OTHER -> 2)
        /\ a.elems = Shape(cmd)
        /\ SubSeq(written, a.next, Len(written)) = CRLF

\* SET..EX was written with a two-byte one-character key, a one-byte value
\* and a two-digit ttl.
C18_Witness ==
    /\ cmd.op = "SetWithTTL" /\ cmd.key = TwoByteChar /\ cmd.value = <<"v">>
    /\ cmd.n = 10
    /\ written # <<>>

\* ---------------------------------------------------------------- C19
\* NewRedisConnection has returned the Connection.
Returned == connPc = "ready" \/ cmd.op \in Methods

\* C19: with credentials, NewRedisConnection returns the Connection only
\* after AUTH was sent on it and answered with Status "OK"; when it fails
\* the stream is closed; without credentials no AUTH is sent.
C19_AuthFirst ==
    /\ (cmd.op = "Auth" /\ connPc # "send") => written = AuthCmd(auth) \o CRLF
    /\ (Returned /\ auth # <<>>) => (replies # <<>> /\ replies[1] = StatusOK)
    /\ connPc = "failed" => ~streamOpen
    /\ auth = <<>> => cmd.op # "Auth"

\* ---------------------------------------------------------------- C20
\* C20: whenever Do returns a reply to a Client method, the reply is the
\* server's reply to the command that call sent, also after earlier calls
\* on the same Connection that were cancelled or failed between Send and
\* Receive.  (Stated for servers that answer with one-line replies only.)
C20_OwnReply ==
    (\A j \in 1..Len(replies) : replies[j][1] \notin {"$", "*"}) =>
        \A i \in 1..Len(result) :
            result[i].got = "reply" =>
                Aligned(result[i]) /\ result[i].to = Offset(result[i].sent)

\* ---------------------------------------------------------------- C16
\* The next handler ran once and what the client was sent is its body.
LiveServed ==
    /\ nextCalls = 1
    /\ rwBody # <<>>
    /\ \A i \in 1..Len(rwBody) : rwBody[i] = LiveBody

\* C16: a request during which the store's dial, Get or SetWithTTL failed
\* or timed out ends with the next handler invoked and its live response
\* sent to the client, as on a miss.
C16_StoreFailureIsMiss ==
    (hPc = "done" /\ failed \cap {"dial", "get", "set"} # {}) => LiveServed

\* ---------------------------------------------------------------- C17
\* C17: a request whose Get returned a non-empty blob that failed to decode
\* ends with one Delete of the key issued and then the miss path taken: the
\* next handler invoked, its response sent and re-cached with SetWithTTL.
C17_CorruptIsMiss ==
    (hPc = "done" /\ "decode" \in failed) =>
        /\ deletes = 1
        /\ LiveServed
        /\ sets = 1

\* ---------------------------------------------------------------- C24
\* The request is over and was a miss: c.next was invoked.
MissServed == hPc = "done" /\ nextCalls = 1
\* The request is over and was a hit: the blob of the store was decoded.
HitServed == hPc = "done" /\ nextCalls = 0 /\ cachedData \in ValidBlobs

\* C24: on a miss the bytes written to the client's ResponseWriter are the
\* body c.next wrote, once; the blob stored under the key holds that same
\* body; and a hit writes the body of the blob it read, so that a later hit
\* serves what the client of the miss received.  With the recorder of
\* recorder.go the body reaches the client while c.next writes it, and
\* ServeHTTP writes it a second time.
C24_MissBodyOnce ==
    /\ MissServed =>
          /\ rwBody = <<LiveBody>>
          /\ "set" \notin failed =>
                (store \in ValidBlobs /\ <<Decode(store).Body>> = rwBody)
    /\ HitServed => rwBody = <<Decode(cachedData).Body>>
====
